---- MODULE Spec2Model ----
(***************************************************************************)
(* Model of check_proxies.py: the proxy validator.                         *)
(*                                                                         *)
(* A text line is a sequence of one-character strings.  The main thread    *)
(* runs main() and validate_proxies_concurrently(); the worker threads of  *)
(* the ThreadPoolExecutor run check_proxy().  A step of the model is one   *)
(* step of one thread.                                                     *)
(***************************************************************************)
EXTENDS Integers, Sequences, FiniteSets, TLC

\* ------------------------------------------------------------------------
\* Bounds of the model
\* ------------------------------------------------------------------------

\* longest input file, in lines
MaxFileLines == 3

\* longest list handed directly to validate_proxies_concurrently
MaxProxies == 2

\* largest --max-workers value tried (0 is tried as well)
MaxWorkersBound == 2

\* the largest number of colon-separated tokens of a line handed to a
\* single check_proxy call
MaxTokens == 5

\* ------------------------------------------------------------------------
\* Text
\* ------------------------------------------------------------------------

\* Python's None (and every other false value the code tests): the empty
\* sequence
None == <<>>

WhiteSpace == {" ", "\t"}

Digits == {"0", "1", "2", "3", "4", "5", "6", "7", "8", "9"}

Range(s) == {s[i] : i \in 1..Len(s)}

NoDup(s) == \A i, j \in 1..Len(s) : s[i] = s[j] => i = j

\* str.strip(): drop the leading and the trailing whitespace
RECURSIVE LStrip(_)
LStrip(s) ==
    IF s # <<>> /\ Head(s) \in WhiteSpace THEN LStrip(Tail(s)) ELSE s

RECURSIVE RStrip(_)
RStrip(s) ==
    IF s # <<>> /\ s[Len(s)] \in WhiteSpace
    THEN RStrip(SubSeq(s, 1, Len(s) - 1))
    ELSE s

Strip(s) == RStrip(LStrip(s))

\* "\n".join(lines)
RECURSIVE JoinLines(_)
JoinLines(lines) ==
    IF lines = <<>> THEN <<>>
    ELSE IF Len(lines) = 1 THEN lines[1]
    ELSE lines[1] \o <<"\n">> \o JoinLines(Tail(lines))

\* the lines of a text written by JoinLines (str.split("\n") of a
\* non-empty text, no line of an empty one)
RECURSIVE SplitFrom(_, _, _)
SplitFrom(text, i, cur) ==
    IF i > Len(text) THEN <<cur>>
    ELSE IF text[i] = "\n" THEN <<cur>> \o SplitFrom(text, i + 1, <<>>)
    ELSE SplitFrom(text, i + 1, Append(cur, text[i]))

SplitLines(text) == IF text = <<>> THEN <<>> ELSE SplitFrom(text, 1, <<>>)

\* ------------------------------------------------------------------------
\* parse_proxy_line
\* ------------------------------------------------------------------------

\* end of the run of digits that starts at position i (i - 1 when s[i] is
\* no digit): the greedy \d+
RECURSIVE DigitsEnd(_, _)
DigitsEnd(s, i) ==
    IF i <= Len(s) /\ s[i] \in Digits THEN DigitsEnd(s, i + 1) ELSE i - 1

\* positions of the colons of s after position j
ColonsAfter(s, j) == {k \in (j + 1)..Len(s) : s[k] = ":"}

\* the optional group (?::([^:]+):([^:]+))?$ matches the text that follows
\* the port, which ends at j
AuthMatches(s, j) ==
    \/ j = Len(s)
    \/ /\ j < Len(s)
       /\ s[j + 1] = ":"
       /\ \E k \in ColonsAfter(s, j + 1) :
            /\ ColonsAfter(s, j + 1) = {k}
            /\ k > j + 2
            /\ k < Len(s)

\* the regular expression matches s with the host ending right before the
\* colon at position i
MatchAt(s, i) ==
    /\ i \in 2..Len(s)
    /\ s[i] = ":"
    /\ \A h \in 1..(i - 1) : s[h] \notin WhiteSpace
    /\ DigitsEnd(s, i + 1) >= i + 1
    /\ AuthMatches(s, DigitsEnd(s, i + 1))

Matches(s) == \E i \in 1..Len(s) : MatchAt(s, i)

\* match.groups(): \S+ is greedy, the host is the longest that matches
Groups(s) ==
    LET i == CHOOSE x \in 1..Len(s) :
                 MatchAt(s, x) /\ \A y \in 1..Len(s) : MatchAt(s, y) => y <= x
        j == DigitsEnd(s, i + 1)
        k == IF j = Len(s) THEN 0
             ELSE CHOOSE x \in ColonsAfter(s, j + 1) : TRUE
    IN  [ip   |-> SubSeq(s, 1, i - 1),
         port |-> SubSeq(s, i + 1, j),
         user |-> IF j = Len(s) THEN None ELSE SubSeq(s, j + 2, k - 1),
         pwd  |-> IF j = Len(s) THEN None ELSE SubSeq(s, k + 1, Len(s))]

HttpScheme == <<"h", "t", "t", "p", ":", "/", "/">>

parse_proxy_line(line) ==
    LET s == Strip(line)
    IN  IF ~Matches(s) THEN None
        ELSE LET g == Groups(s)
                 auth == IF g.user # None /\ g.pwd # None
                         THEN g.user \o <<":">> \o g.pwd \o <<"@">>
                         ELSE <<>>
                 proxy_url == HttpScheme \o auth \o g.ip \o <<":">> \o g.port
             IN  [http |-> proxy_url, https |-> proxy_url]

\* ------------------------------------------------------------------------
\* Lines
\* ------------------------------------------------------------------------

LineA == <<"h", ":", "8">>
LineASpaced == <<" ", "h", ":", "8", "\t">>
LineB == <<"g", ":", "9", ":", "u", ":", "p">>
LineBad == <<"b", "a", "d">>
LineBlank == <<" ">>

\* the lines an input file is made of
FilePool == {LineA, LineASpaced, LineB, LineBad, LineBlank}

\* the lines of a list handed directly to validate_proxies_concurrently
ListPool == {LineA, LineB, LineBad}

SeqsUpTo(S, n) == UNION {[1..k -> S] : k \in 0..n}

\* the tokens the lines of a single probe are made of: a name, a number,
\* nothing
TokenPool == {<<"h">>, <<"8">>, <<>>}

RECURSIVE JoinTokens(_)
\* the tokens with a colon between them
JoinTokens(ts) ==
    IF Len(ts) = 1 THEN ts[1]
    ELSE ts[1] \o <<":">> \o JoinTokens(Tail(ts))

\* the lines of up to MaxTokens tokens
ProbeLines == {JoinTokens(ts) : ts \in SeqsUpTo(TokenPool, MaxTokens) \ {<<>>}}

\* the lines a call of check_proxy can be handed: read_proxies strips the
\* lines of the file
Lines == ListPool \cup {Strip(l) : l \in FilePool} \cup ProbeLines

\* parse_proxy_line on each of these lines
Parsed == [l \in Lines |-> parse_proxy_line(l)]

\* ------------------------------------------------------------------------
\* check_proxy
\* ------------------------------------------------------------------------

\* the classes of the exceptions a request can raise, each with its bases
\* (requests.exceptions)
Bases(cls) ==
    CASE cls = "ConnectTimeout"   -> {"ConnectionError", "Timeout"}
      [] cls = "ReadTimeout"      -> {"Timeout"}
      [] cls = "ProxyError"       -> {"ConnectionError"}
      [] cls = "ConnectionError"  -> {"RequestException"}
      [] cls = "Timeout"          -> {"RequestException"}
      [] cls = "RequestException" -> {"Exception"}
      [] cls = "ValueError"       -> {"Exception"}
      [] cls = "TypeError"        -> {"Exception"}
      [] OTHER                    -> {}

RECURSIVE IsSubclass(_, _)
IsSubclass(cls, base) ==
    \/ cls = base
    \/ \E b \in Bases(cls) : IsSubclass(b, base)

\* What the environment does to one probe: make_session() raises the
\* exception `session` (or "" for none), then session.get() raises `exc`
\* (or "" for none) or answers with the status `code`.
Answer(c) == [session |-> "", exc |-> "", code |-> c]
Raise(e) == [session |-> "", exc |-> e, code |-> 0]
SessionFails(e) == [session |-> e, exc |-> "", code |-> 0]

\* requests.Response.ok: raise_for_status() does not raise
RespOk(code) == ~(400 <= code /\ code < 600)

\* what a call of check_proxy hands back: the returned pair, or the
\* exception that leaves it
Returned(v, s) == [valid |-> v, status |-> s, raised |-> ""]
Raised(e) == [valid |-> None, status |-> "", raised |-> e]

\* lines 116-132: the request and the classification of its result
ProbeResult(proxy_line, resp) ==
    IF resp.exc = ""
    THEN IF RespOk(resp.code)
         THEN Returned(proxy_line, "ok")
         ELSE Returned(None, "http_" \o ToString(resp.code))
    ELSE IF IsSubclass(resp.exc, "ConnectTimeout") THEN Returned(None, "timeout")
    ELSE IF IsSubclass(resp.exc, "ReadTimeout") THEN Returned(None, "timeout")
    ELSE IF IsSubclass(resp.exc, "ProxyError") THEN Returned(None, "proxy_error")
    ELSE IF IsSubclass(resp.exc, "ConnectionError") THEN Returned(None, "conn_error")
    ELSE IF IsSubclass(resp.exc, "Exception") THEN Returned(None, resp.exc)
    ELSE Raised(resp.exc)

\* the proxies handed to session.get (lines 109-113)
ProbeProxies(proxy_line, https_only) ==
    LET proxies == Parsed[proxy_line]
    IN  IF proxies = None THEN None
        ELSE IF https_only THEN [proxies EXCEPT !.http = <<>>]
        ELSE proxies

\* a whole call of check_proxy
check_proxy(proxy_line, resp, https_only) ==
    IF ProbeProxies(proxy_line, https_only) = None
    THEN Returned(None, "invalid_format")
    ELSE IF resp.session # "" THEN Raised(resp.session)
    ELSE ProbeResult(proxy_line, resp)

\* ------------------------------------------------------------------------
\* collections.Counter
\* ------------------------------------------------------------------------

EmptyCounter == [k \in {} |-> 0]

Inc(c, k) ==
    IF k \in DOMAIN c THEN [c EXCEPT ![k] = @ + 1] ELSE c @@ (k :> 1)

RECURSIVE SumOver(_, _)
SumOver(c, keys) ==
    IF keys = {} THEN 0
    ELSE LET k == CHOOSE x \in keys : TRUE
         IN  c[k] + SumOver(c, keys \ {k})

Total(c) == SumOver(c, DOMAIN c)

\* ------------------------------------------------------------------------
\* Inputs
\* ------------------------------------------------------------------------

\* the content the output file holds before the run
OldOutput == <<"o", ":", "1">>

\* no file: the path does not exist, or the file is closed
NoFile == [status |-> "missing", lines |-> <<>>]

Files ==
    {NoFile, [status |-> "unreadable", lines |-> <<>>]}
    \cup {[status |-> "ok", lines |-> ls] : ls \in SeqsUpTo(FilePool, MaxFileLines)}

\* what the environment can do to a probe of the first round and of the
\* HTTPS round
Responses ==
    {Answer(200), Answer(404), Raise("ConnectTimeout"), Raise("ProxyError"),
     SessionFails("TypeError")}

HttpsResponses == {Answer(200), Raise("ReadTimeout")}

\* what the environment can do to a probe looked at on its own: final
\* statuses of every class and every exception check_proxy tells apart
ProbeResponses ==
    {Answer(100), Answer(200), Answer(204), Answer(304), Answer(404), Answer(503),
     Raise("ConnectTimeout"), Raise("ReadTimeout"), Raise("ProxyError"),
     Raise("ConnectionError"), Raise("ValueError"), SessionFails("TypeError")}


Urls == {"http", "https"}

\* no probe has met the environment yet
NoAnswers == [u \in Urls |-> [l \in {} |-> Answer(0)]]

\* ------------------------------------------------------------------------
\* State
\* ------------------------------------------------------------------------

VARIABLES
    caller,         \* "main": the program runs main(); "direct": a caller
                    \* runs validate_proxies_concurrently on a list of its own
    args,           \* the parsed command line
    file,           \* the input file, until main has read it
    repeated,       \* the input file held a line more than once
    endpoint,       \* the environment: url -> line -> what the probes of
                    \* the line meet, for the lines probed so far
    pc,             \* where the main thread is
    round,          \* 1, or 2 in the HTTPS re-test
    exc,            \* the exception on its way up in the main thread
    proxies,        \* main: the list read_proxies returned
    valid,          \* main: valid
    valid_bound,    \* main: 'valid' in locals()
    main_errors,    \* main: errors
    vproxies,       \* validate_proxies_concurrently: proxies
    url,            \* validate_proxies_concurrently: url
    https_only,     \* validate_proxies_concurrently: https_only
    results,        \* validate_proxies_concurrently: results
    errors,         \* validate_proxies_concurrently: errors
    futures,        \* the futures, in the order of submission
    work_queue,     \* the executor's queue: indices of futures
    threads,        \* the number of worker threads of the executor
    idle_semaphore, \* the executor's _idle_semaphore
    sessions,       \* the sessions make_session has returned, each with the
                    \* future whose call holds it
    yielded,        \* the futures as_completed has handed to the loop
    output,         \* the content of the output file
    wcalls,         \* the number of calls of write_proxies
    wfailed         \* the last write_proxies failed and logged the error

vars == <<caller, args, file, repeated, endpoint, pc, round, exc, proxies, valid,
          valid_bound, main_errors, vproxies, url, https_only, results,
          errors, futures, work_queue, threads, idle_semaphore, sessions,
          yielded, output, wcalls, wfailed>>

mainVars == <<proxies, valid, valid_bound, main_errors>>
envVars == <<caller, args>>
outVars == <<output, wcalls, wfailed>>
callVars == <<vproxies, url, https_only>>
poolVars == <<futures, work_queue, threads, idle_semaphore, sessions>>

Workers == 0..MaxWorkersBound

InFlight == {i \in 1..Len(futures) : futures[i].st \in {"STARTED", "PROBING"}}
Finished == {i \in 1..Len(futures) : futures[i].st = "FINISHED"}

Init ==
    /\ caller = "main"
    /\ \E w \in Workers, h \in BOOLEAN, a \in BOOLEAN :
           args = [max_workers |-> w, https_only |-> h, also_test_https |-> a]
    /\ file \in Files
    /\ repeated = FALSE
    /\ endpoint = NoAnswers
    /\ pc = "main"
    /\ round = 1
    /\ exc = ""
    /\ proxies = <<>>
    /\ valid = <<>>
    /\ valid_bound = FALSE
    /\ main_errors = EmptyCounter
    /\ vproxies = <<>>
    /\ url = "http"
    /\ https_only = FALSE
    /\ results = <<>>
    /\ errors = EmptyCounter
    /\ futures = <<>>
    /\ work_queue = <<>>
    /\ threads = 0
    /\ idle_semaphore = 0
    /\ sessions = {}
    /\ yielded = {}
    /\ output = OldOutput
    /\ wcalls = 0
    /\ wfailed = FALSE

\* a caller of its own hands a list to validate_proxies_concurrently
InitValidate ==
    /\ caller = "direct"
    /\ \E w \in Workers, h \in BOOLEAN :
           args = [max_workers |-> w, https_only |-> h, also_test_https |-> FALSE]
    /\ file = NoFile
    /\ repeated = FALSE
    /\ vproxies \in SeqsUpTo(ListPool, MaxProxies)
    /\ endpoint = NoAnswers
    /\ pc = "validate"
    /\ round = 1
    /\ exc = ""
    /\ proxies = <<>>
    /\ valid = <<>>
    /\ valid_bound = FALSE
    /\ main_errors = EmptyCounter
    /\ url = "http"
    /\ https_only = args.https_only
    /\ results = <<>>
    /\ errors = EmptyCounter
    /\ futures = <<>>
    /\ work_queue = <<>>
    /\ threads = 0
    /\ idle_semaphore = 0
    /\ sessions = {}
    /\ yielded = {}
    /\ output = OldOutput
    /\ wcalls = 0
    /\ wfailed = FALSE

\* one line is handed to validate_proxies_concurrently with one worker, so
\* that the run is a single check_proxy call
InitProbe ==
    /\ caller = "probe"
    /\ \E h \in BOOLEAN :
           args = [max_workers |-> 1, https_only |-> h, also_test_https |-> FALSE]
    /\ file = NoFile
    /\ repeated = FALSE
    /\ \E line \in ProbeLines : vproxies = <<line>>
    /\ endpoint = NoAnswers
    /\ pc = "validate"
    /\ round = 1
    /\ exc = ""
    /\ proxies = <<>>
    /\ valid = <<>>
    /\ valid_bound = FALSE
    /\ main_errors = EmptyCounter
    /\ url = "http"
    /\ https_only = args.https_only
    /\ results = <<>>
    /\ errors = EmptyCounter
    /\ futures = <<>>
    /\ work_queue = <<>>
    /\ threads = 0
    /\ idle_semaphore = 0
    /\ sessions = {}
    /\ yielded = {}
    /\ output = OldOutput
    /\ wcalls = 0
    /\ wfailed = FALSE

\* ------------------------------------------------------------------------
\* main: reading the input
\* ------------------------------------------------------------------------

\* the orders random.shuffle can leave the elements of a set in
Shuffles(S) ==
    {p \in [1..Cardinality(S) -> S] : \A i, j \in 1..Cardinality(S) : p[i] = p[j] => i = j}

\* read_proxies with a list in place of the set of line 59: a repeated line
\* stays repeated
read_proxies_list(f) ==
    IF f.status # "ok" THEN {<<>>}
    ELSE LET ls == SelectSeq([i \in 1..Len(f.lines) |-> Strip(f.lines[i])],
                             LAMBDA x : x # <<>>)
         IN  {[i \in 1..Len(ls) |-> ls[p[i]]] : p \in Permutations(1..Len(ls))}

\* the lists read_proxies can return
read_proxies(f) ==
    IF f.status # "ok" THEN {<<>>}
    ELSE Shuffles({Strip(l) : l \in {x \in Range(f.lines) : Strip(x) # <<>>}})

\* a file that holds some line twice, surrounding whitespace aside
Repeats(f) ==
    \E i, j \in 1..Len(f.lines) :
        i # j /\ Strip(f.lines[i]) = Strip(f.lines[j]) /\ Strip(f.lines[i]) # <<>>

\* write_proxies: the file is overwritten, or the write fails and the
\* failure is logged
write_proxies(lines) ==
    /\ wcalls' = wcalls + 1
    /\ \/ output' = JoinLines(lines) /\ wfailed' = FALSE
       \/ output' = output /\ wfailed' = TRUE

\* lines 184-191: read the input; return when there is nothing to validate
MainStart ==
    /\ caller = "main"
    /\ pc = "main"
    /\ file' = NoFile
    /\ repeated' = Repeats(file)
    /\ \E ps \in read_proxies(file) :
         /\ proxies' = ps
         /\ IF ps = <<>>
            THEN /\ pc' = "exit"
                 /\ UNCHANGED callVars
            ELSE /\ pc' = "validate"
                 /\ vproxies' = ps
                 /\ url' = "http"
                 /\ https_only' = args.https_only
    /\ UNCHANGED <<endpoint, envVars, round, exc, valid, valid_bound,
                   main_errors, results, errors, poolVars, yielded, outVars>>

\* ------------------------------------------------------------------------
\* validate_proxies_concurrently: the main thread
\* ------------------------------------------------------------------------

\* lines 155-159: the empty report and the executor; ThreadPoolExecutor
\* raises ValueError for max_workers <= 0
ValidateEnter ==
    /\ pc = "validate"
    /\ exc = ""
    /\ results' = <<>>
    /\ errors' = EmptyCounter
    /\ futures' = <<>>
    /\ work_queue' = <<>>
    /\ threads' = 0
    /\ idle_semaphore' = 0
    /\ sessions' = {}
    /\ yielded' = {}
    /\ IF args.max_workers <= 0
       THEN exc' = "ValueError" /\ pc' = "raised"
       ELSE exc' = exc /\ pc' = (IF vproxies = <<>> THEN "collect" ELSE "submit")
    /\ UNCHANGED <<file, repeated, endpoint, envVars, round, mainVars, callVars, outVars>>

\* an executor that starts a thread for every work item it finds no idle
\* thread for
AdjustThreadCountUnbounded(n, sem, max_workers) ==
    IF sem > 0 THEN [threads |-> n, idle |-> sem - 1]
    ELSE [threads |-> n + 1, idle |-> sem]

\* ThreadPoolExecutor._adjust_thread_count: no new thread when an idle one
\* is announced or max_workers threads exist
AdjustThreadCount(n, sem, max_workers) ==
    IF sem > 0 THEN [threads |-> n, idle |-> sem - 1]
    ELSE IF n < max_workers THEN [threads |-> n + 1, idle |-> sem]
    ELSE [threads |-> n, idle |-> sem]

\* a submit that queues the work item and starts no thread for it
SubmitNoThread ==
    /\ pc = "submit"
    /\ LET i == Len(futures) + 1
       IN  /\ futures' = Append(futures,
                                [line |-> vproxies[i], st |-> "PENDING",
                                 valid |-> None, status |-> "", raised |-> ""])
           /\ work_queue' = Append(work_queue, i)
           /\ pc' = IF i = Len(vproxies) THEN "collect" ELSE "submit"
    /\ UNCHANGED <<file, repeated, endpoint, envVars, round, exc, mainVars, callVars, results, errors,
                   threads, idle_semaphore, sessions, yielded, outVars>>

\* line 160: executor.submit for the next line of the list
Submit ==
    /\ pc = "submit"
    /\ LET i == Len(futures) + 1
           adj == AdjustThreadCount(threads, idle_semaphore, args.max_workers)
       IN  /\ futures' = Append(futures,
                                [line |-> vproxies[i], st |-> "PENDING",
                                 valid |-> None, status |-> "", raised |-> ""])
           /\ work_queue' = Append(work_queue, i)
           /\ threads' = adj.threads
           /\ idle_semaphore' = adj.idle
           /\ pc' = IF i = Len(vproxies) THEN "collect" ELSE "submit"
    /\ UNCHANGED <<file, repeated, endpoint, envVars, round, exc, mainVars, callVars, results, errors,
                   sessions, yielded, outVars>>

\* the loop without line 169: an outcome that is an exception is dropped
FoldDropsRaised(res, errs, fut) ==
    IF fut.raised # ""
    THEN [results |-> res, errors |-> errs, exc |-> ""]
    ELSE IF fut.valid # None
         THEN [results |-> Append(res, fut.valid), errors |-> errs, exc |-> ""]
         ELSE [results |-> res, errors |-> Inc(errs, fut.status), exc |-> ""]

\* the loop with errors[status] = 1 in place of += 1
FoldOverwritesCount(res, errs, fut) ==
    IF fut.raised # ""
    THEN [results |-> res,
          errors |-> Inc(errs, "<class '" \o fut.raised \o "'>"),
          exc |-> ""]
    ELSE IF fut.valid # None
         THEN [results |-> Append(res, fut.valid), errors |-> errs, exc |-> ""]
         ELSE [results |-> res,
               errors |-> [k \in DOMAIN errs \cup {fut.status} |->
                              IF k = fut.status THEN 1 ELSE errs[k]],
               exc |-> ""]

\* the loop without the try of lines 162-169: the exception of a future
\* leaves the loop
FoldNoExcept(res, errs, fut) ==
    IF fut.raised # ""
    THEN [results |-> res, errors |-> errs, exc |-> fut.raised]
    ELSE IF fut.valid # None
         THEN [results |-> Append(res, fut.valid), errors |-> errs, exc |-> ""]
         ELSE [results |-> res, errors |-> Inc(errs, fut.status), exc |-> ""]

\* lines 162-169: one outcome folded into the report
Fold(res, errs, fut) ==
    IF fut.raised # ""
    THEN IF IsSubclass(fut.raised, "Exception")
         THEN [results |-> res,
               errors |-> Inc(errs, "<class '" \o fut.raised \o "'>"),
               exc |-> ""]
         ELSE [results |-> res, errors |-> errs, exc |-> fut.raised]
    ELSE IF fut.valid # None
         THEN [results |-> Append(res, fut.valid), errors |-> errs, exc |-> ""]
         ELSE [results |-> res, errors |-> Inc(errs, fut.status), exc |-> ""]

\* lines 161-169: as_completed hands over a finished future
Collect(i) ==
    /\ pc = "collect"
    /\ i \in Finished \ yielded
    /\ yielded' = yielded \cup {i}
    /\ LET f == Fold(results, errors, futures[i])
       IN  /\ results' = f.results
           /\ errors' = f.errors
           /\ exc' = f.exc
           /\ pc' = IF f.exc = "" THEN "collect" ELSE "shutdown"
    /\ UNCHANGED <<file, repeated, endpoint, envVars, round, mainVars, callVars, poolVars, outVars>>

\* lines 159, 171: the loop is over, the executor is shut down (every
\* future is finished), the report is returned
Return ==
    /\ pc = "collect"
    /\ yielded = 1..Len(vproxies)
    /\ pc' = "returned"
    /\ UNCHANGED <<file, repeated, endpoint, envVars, round, exc, mainVars, callVars, results, errors,
                   poolVars, yielded, outVars>>

\* Ctrl-C: KeyboardInterrupt is raised in the main thread
KeyboardInterrupt ==
    /\ pc \in {"validate", "submit", "collect"}
    /\ exc = ""
    /\ exc' = "KeyboardInterrupt"
    /\ pc' = IF pc = "validate" THEN "raised" ELSE "shutdown"
    /\ UNCHANGED <<file, repeated, endpoint, envVars, round, mainVars, callVars, results, errors,
                   poolVars, yielded, outVars>>

\* an executor left with shutdown(wait=False): the exception goes on while
\* the threads still run
ShutdownNoWait ==
    /\ pc = "shutdown"
    /\ pc' = "raised"
    /\ UNCHANGED <<file, repeated, endpoint, envVars, round, exc, mainVars, callVars, results, errors,
                   poolVars, yielded, outVars>>

\* line 159: the exception leaves the with block; ThreadPoolExecutor.__exit__
\* is shutdown(wait=True), which joins the worker threads, and these run
\* the queue empty first
ShutdownJoin ==
    /\ pc = "shutdown"
    /\ work_queue = <<>>
    /\ InFlight = {}
    /\ pc' = "raised"
    /\ UNCHANGED <<file, repeated, endpoint, envVars, round, exc, mainVars, callVars, results, errors,
                   poolVars, yielded, outVars>>

\* ------------------------------------------------------------------------
\* The worker threads
\* ------------------------------------------------------------------------

\* a check_proxy that appends the line it accepts to the report itself
FinishWritesReport(i, outcome) ==
    /\ futures' = [futures EXCEPT ![i] =
                      [@ EXCEPT !.st = "FINISHED", !.valid = outcome.valid,
                                !.status = outcome.status,
                                !.raised = outcome.raised]]
    /\ idle_semaphore' = idle_semaphore + 1
    /\ results' = IF outcome.valid # None THEN Append(results, outcome.valid)
                  ELSE results
    /\ errors' = errors

\* check_proxy hands its outcome back: the future's outcome is set and the
\* thread announces itself idle; the report is not touched
Finish(i, outcome) ==
    /\ futures' = [futures EXCEPT ![i] =
                      [@ EXCEPT !.st = "FINISHED", !.valid = outcome.valid,
                                !.status = outcome.status,
                                !.raised = outcome.raised]]
    /\ idle_semaphore' = idle_semaphore + 1
    /\ UNCHANGED <<results, errors>>

\* a pool that works in batches of max_workers: a line is started only
\* when every line of the batches before its own has finished
WorkerGetBatched ==
    /\ work_queue # <<>>
    /\ Cardinality(InFlight) < threads
    /\ \A j \in 1..(((Head(work_queue) - 1) \div args.max_workers) * args.max_workers) :
          futures[j].st = "FINISHED"
    /\ futures' = [futures EXCEPT ![Head(work_queue)].st = "STARTED"]
    /\ work_queue' = Tail(work_queue)
    /\ UNCHANGED <<file, repeated, endpoint, envVars, pc, round, exc, mainVars, callVars, results,
                   errors, threads, idle_semaphore, sessions, yielded, outVars>>

\* _worker: a thread that runs no work item takes the next one off the
\* queue and calls check_proxy
WorkerGet ==
    /\ work_queue # <<>>
    /\ Cardinality(InFlight) < threads
    /\ futures' = [futures EXCEPT ![Head(work_queue)].st = "STARTED"]
    /\ work_queue' = Tail(work_queue)
    /\ UNCHANGED <<file, repeated, endpoint, envVars, pc, round, exc, mainVars, callVars, results,
                   errors, threads, idle_semaphore, sessions, yielded, outVars>>

\* what the probe of a line meets: what the probes of the line have met
\* before, or anything when it is the first
Meets(u, line) ==
    IF line \in DOMAIN endpoint[u] THEN {endpoint[u][line]}
    ELSE IF caller = "probe" THEN ProbeResponses
    ELSE IF u = "http" THEN Responses
    ELSE HttpsResponses

\* line 115: the session make_session returns to the call of future i
NewSession(i) == [owner |-> i, closed |-> FALSE]

\* line 134: session.close() in the call of future i
Close(ss, i) ==
    {IF c.owner = i THEN [c EXCEPT !.closed = TRUE] ELSE c : c \in ss}

\* a check_proxy that makes its session first and parses the line inside
\* the try
CheckProxySessionFirst(i) ==
    /\ i \in 1..Len(futures)
    /\ futures[i].st = "STARTED"
    /\ LET line == futures[i].line
       IN  \E resp \in Meets(url, line) :
              /\ endpoint' = [endpoint EXCEPT ![url] = line :> resp @@ @]
              /\ IF resp.session # ""
                 THEN /\ Finish(i, Raised(resp.session))
                      /\ UNCHANGED sessions
                 ELSE IF ProbeProxies(line, https_only) = None
                 THEN /\ Finish(i, Returned(None, "invalid_format"))
                      /\ sessions' = Close(sessions \cup {NewSession(i)}, i)
                 ELSE /\ futures' = [futures EXCEPT ![i].st = "PROBING"]
                      /\ sessions' = sessions \cup {NewSession(i)}
                      /\ UNCHANGED <<idle_semaphore, results, errors>>
    /\ UNCHANGED <<file, repeated, envVars, pc, round, exc, mainVars, callVars,
                   work_queue, threads, yielded, outVars>>

\* lines 109-115: parse the line; a rejected line is answered at once,
\* the others get a session
CheckProxyParse(i) ==
    /\ i \in 1..Len(futures)
    /\ futures[i].st = "STARTED"
    /\ LET line == futures[i].line
       IN  IF ProbeProxies(line, https_only) = None
           THEN /\ Finish(i, Returned(None, "invalid_format"))
                /\ UNCHANGED <<endpoint, sessions>>
           ELSE \E resp \in Meets(url, line) :
                  /\ endpoint' = [endpoint EXCEPT ![url] = line :> resp @@ @]
                  /\ IF resp.session # ""
                     THEN /\ Finish(i, Raised(resp.session))
                          /\ UNCHANGED sessions
                     ELSE /\ futures' = [futures EXCEPT ![i].st = "PROBING"]
                          /\ sessions' = sessions \cup {NewSession(i)}
                          /\ UNCHANGED <<idle_semaphore, results, errors>>
    /\ UNCHANGED <<file, repeated, envVars, pc, round, exc, mainVars, callVars,
                   work_queue, threads, yielded, outVars>>

\* a check_proxy without the finally clause: the session is closed after
\* the response is classified, and left open when the request raises
CheckProxyRequestNoFinally(i) ==
    /\ i \in 1..Len(futures)
    /\ futures[i].st = "PROBING"
    /\ Finish(i, ProbeResult(futures[i].line, endpoint[url][futures[i].line]))
    /\ sessions' = IF endpoint[url][futures[i].line].exc = ""
                   THEN Close(sessions, i)
                   ELSE sessions
    /\ UNCHANGED <<file, repeated, endpoint, envVars, pc, round, exc, mainVars, callVars,
                   work_queue, threads, yielded, outVars>>

\* lines 116-134: the request, its classification, the session closed
CheckProxyRequest(i) ==
    /\ i \in 1..Len(futures)
    /\ futures[i].st = "PROBING"
    /\ Finish(i, ProbeResult(futures[i].line, endpoint[url][futures[i].line]))
    /\ sessions' = Close(sessions, i)
    /\ UNCHANGED <<file, repeated, endpoint, envVars, pc, round, exc, mainVars, callVars,
                   work_queue, threads, yielded, outVars>>

\* ------------------------------------------------------------------------
\* main: after the validation
\* ------------------------------------------------------------------------

\* a main that writes only when something was accepted
MainTailSkipsEmpty(v) ==
    /\ IF v = <<>> THEN UNCHANGED outVars ELSE write_proxies(v)
    /\ pc' = "exit"

\* lines 207-216: the result is written
MainTail(v) ==
    /\ write_proxies(v)
    /\ pc' = "exit"

\* lines 192-200, 207-216: the first round has returned
MainAfterRound1 ==
    /\ caller = "main"
    /\ pc = "returned"
    /\ round = 1
    /\ valid' = results
    /\ valid_bound' = TRUE
    /\ main_errors' = errors
    /\ IF args.also_test_https /\ results # <<>>
       THEN /\ round' = 2
            /\ pc' = "validate"
            /\ vproxies' = results
            /\ url' = "https"
            /\ https_only' = TRUE
            /\ UNCHANGED outVars
       ELSE /\ MainTail(results)
            /\ UNCHANGED <<round, callVars>>
    /\ UNCHANGED <<file, repeated, endpoint, envVars, exc, proxies, results, errors, poolVars, yielded>>

\* a main that keeps the second round's tally: valid, errors = ...
MainAfterRound2TakesErrors ==
    /\ caller = "main"
    /\ pc = "returned"
    /\ round = 2
    /\ valid' = results
    /\ main_errors' = errors
    /\ MainTail(results)
    /\ UNCHANGED <<file, repeated, endpoint, envVars, round, exc, proxies, valid_bound,
                   callVars, results, errors, poolVars, yielded>>

\* lines 198-200, 207-216: the HTTPS round has returned
MainAfterRound2 ==
    /\ caller = "main"
    /\ pc = "returned"
    /\ round = 2
    /\ valid' = results
    /\ MainTail(results)
    /\ UNCHANGED <<file, repeated, endpoint, envVars, round, exc, proxies, valid_bound, main_errors,
                   callVars, results, errors, poolVars, yielded>>

\* lines 202-205: KeyboardInterrupt is caught and what main holds is
\* written; any other exception ends the program
MainExcept ==
    /\ caller = "main"
    /\ pc = "raised"
    /\ IF exc = "KeyboardInterrupt"
       THEN MainTail(IF valid_bound THEN valid ELSE <<>>)
       ELSE pc' = "crashed" /\ UNCHANGED outVars
    /\ UNCHANGED <<file, repeated, endpoint, envVars, round, exc, mainVars, callVars, results, errors,
                   poolVars, yielded>>

\* ------------------------------------------------------------------------
\* Specifications
\* ------------------------------------------------------------------------

NextValidate ==
    \/ ValidateEnter
    \/ Submit
    \/ \E i \in 1..Len(futures) : Collect(i)
    \/ Return
    \/ KeyboardInterrupt
    \/ ShutdownJoin
    \/ WorkerGet
    \/ \E i \in 1..Len(futures) : CheckProxyParse(i)
    \/ \E i \in 1..Len(futures) : CheckProxyRequest(i)

Next ==
    \/ MainStart
    \/ NextValidate
    \/ MainAfterRound1
    \/ MainAfterRound2
    \/ MainExcept

\* the program
Spec == Init /\ [][Next]_vars

\* validate_proxies_concurrently called on a list
SpecValidate == InitValidate /\ [][NextValidate]_vars

\* check_proxy called on a line
SpecProbe == InitProbe /\ [][NextValidate]_vars

\* the steps of a call nobody interrupts
NextUninterrupted ==
    \/ ValidateEnter
    \/ Submit
    \/ \E i \in 1..Len(futures) : Collect(i)
    \/ Return
    \/ WorkerGet
    \/ \E i \in 1..Len(futures) : CheckProxyParse(i)
    \/ \E i \in 1..Len(futures) : CheckProxyRequest(i)

\* validate_proxies_concurrently called on a list and not interrupted; the
\* main thread and the worker threads are scheduled and every request
\* ends (the timeout bounds it), so a step that can be taken is taken
SpecFair ==
    InitValidate /\ [][NextUninterrupted]_vars /\ WF_vars(NextUninterrupted)

\* ------------------------------------------------------------------------
\* Properties
\* ------------------------------------------------------------------------

\* the key a future's outcome is counted under ("" for an accepted line)
ErrorKey(fut) ==
    IF fut.raised # "" THEN "<class '" \o fut.raised \o "'>"
    ELSE IF fut.valid # None THEN ""
    ELSE fut.status

\* the outcome of the probe of a line, from the line and the environment
\* alone
OwnOutcome(line) ==
    IF parse_proxy_line(line) = None THEN Returned(None, "invalid_format")
    ELSE check_proxy(line, endpoint[url][line], https_only)

\* the number of elements of a sequence with a property
Count(seq, P(_)) == Cardinality({i \in 1..Len(seq) : P(seq[i])})

\* C1: at every moment the number of check_proxy calls that have started
\* and not returned is at most max_workers.
C1_ConcurrencyBound == Cardinality(InFlight) <= args.max_workers

\* C1 witness: two workers, both in flight, while a line still waits in the
\* queue
C1_Witness ==
    /\ args.max_workers >= 2
    /\ Cardinality(InFlight) = args.max_workers
    /\ work_queue # <<>>

\* C2: when validate_proxies_concurrently returns, every submitted line has
\* one finished future, every future has been folded into the report once:
\* the accepted lines and the tallies count the outcomes of the futures,
\* exceptions included, and add up to the number of lines.
C2_EveryOutcomeOnce ==
    pc = "returned" =>
        /\ Len(futures) = Len(vproxies)
        /\ \A i \in 1..Len(futures) :
               futures[i].st = "FINISHED" /\ futures[i].line = vproxies[i]
        /\ yielded = 1..Len(futures)
        /\ Len(results) = Count(futures, LAMBDA f : ErrorKey(f) = "")
        /\ \A k \in DOMAIN errors :
               errors[k] = Count(futures, LAMBDA f : ErrorKey(f) = k)
        /\ Len(results) + Total(errors) = Len(vproxies)

\* C2 witness: a run of several lines has returned and one of its probes
\* ended in an exception
C2_Witness ==
    /\ pc = "returned"
    /\ Len(vproxies) >= 2
    /\ \E i \in 1..Len(futures) : futures[i].raised # ""

\* C5: the returned report is a function of the lines and of what each
\* line's probe meets: every line is accepted as often as the list holds it
\* with an accepting probe, every failure kind is counted as often as the
\* list holds a line whose probe fails that way, whatever the order of the
\* list, the order of completion and max_workers are.
C5_Deterministic ==
    pc = "returned" =>
        /\ \A l \in Range(vproxies) \cup Range(results) :
               Count(results, LAMBDA r : r = l)
                   = Count(vproxies, LAMBDA v : v = l /\ OwnOutcome(v).valid # None)
        /\ DOMAIN errors = {ErrorKey(OwnOutcome(l)) : l \in Range(vproxies)} \ {""}
        /\ \A k \in DOMAIN errors :
               errors[k] = Count(vproxies, LAMBDA v : ErrorKey(OwnOutcome(v)) = k)

\* C5 witness: two workers, and the lines were accepted in the order
\* opposite to the order of the list
C5_Witness ==
    /\ pc = "returned"
    /\ args.max_workers >= 2
    /\ Len(vproxies) >= 2
    /\ Len(results) >= 2
    /\ vproxies[1] # vproxies[2]
    /\ results[1] = vproxies[2]
    /\ results[2] = vproxies[1]

\* C6: the report (results, errors) changes only in a step of the main
\* thread's collection loop, which hands over one more future; a step of a
\* worker, which changes a future or the queue, leaves the report alone.
C6_SingleWriter ==
    [][(results' # results \/ errors' # errors) =>
          /\ pc = "collect"
          /\ UNCHANGED poolVars
          /\ \E i \in Finished \ yielded : yielded' = yielded \cup {i}]_vars

\* C6 witness: the loop has written the report while a probe is in flight
C6_Witness ==
    /\ caller = "direct"
    /\ results # <<>> \/ errors # EmptyCounter
    /\ InFlight # {}

\* C7: when the run ends, every finished probe has the outcome its own
\* line and its own answer give it, whatever happened to the other probes;
\* no exception leaves validate_proxies_concurrently but KeyboardInterrupt
\* and the executor's ValueError for max_workers <= 0, which no probe has
\* run before; and a run that returns has probed every line.
C7_FailureIsolation ==
    /\ pc \in {"returned", "raised"} => \A i \in Finished :
           [valid |-> futures[i].valid, status |-> futures[i].status,
            raised |-> futures[i].raised] = OwnOutcome(futures[i].line)
    /\ pc \in {"shutdown", "raised"} =>
           \/ exc = "KeyboardInterrupt"
           \/ exc = "ValueError" /\ args.max_workers <= 0 /\ futures = <<>>
    /\ pc = "returned" =>
           /\ Len(futures) = Len(vproxies)
           /\ Finished = 1..Len(vproxies)

\* C7 witness: a run has returned in which the probe of the first line
\* raised and the line after it was accepted
C7_Witness ==
    /\ caller = "direct"
    /\ pc = "returned"
    /\ Len(futures) >= 2
    /\ futures[1].raised # ""
    /\ futures[2].valid # None

\* C10: no line appears twice in the accepted list of
\* validate_proxies_concurrently, also when the list handed to it holds a
\* line twice.
C10_AcceptedDeduplicated == pc = "returned" => NoDup(results)

\* C3: after an interrupt the output is written once and holds exactly the
\* accepted lines among the outcomes collected before the interrupt.
C3_PartialResults ==
    (pc = "exit" /\ exc = "KeyboardInterrupt") =>
        /\ wcalls = 1
        /\ ~wfailed => output = JoinLines(results)

\* C4: once the interrupt is observed, no check_proxy call that had not
\* started is started.
C4_NoDispatchAfterInterrupt ==
    [][exc = "KeyboardInterrupt" =>
          \A i \in 1..Len(futures) :
              futures[i].st = "PENDING" => futures'[i].st = "PENDING"]_vars

C9_Deduplicated ==
    /\ pc = "main" =>
           \A ps \in read_proxies(file) :
               /\ NoDup(ps)
               /\ Range(ps) = {Strip(l) : l \in Range(file.lines)} \ {<<>>}
    /\ NoDup(proxies)
    /\ NoDup(vproxies)
    /\ NoDup([i \in 1..Len(futures) |-> futures[i].line])
    /\ NoDup(results)
    /\ NoDup(valid)
    /\ NoDup(SplitLines(output))

\* C9 witness: the file held a line twice and the line is in the output
\* that was written
C9_Witness ==
    /\ repeated
    /\ pc = "exit"
    /\ exc = ""
    /\ wcalls = 1
    /\ ~wfailed
    /\ \E i \in 1..Len(SplitLines(output)) : SplitLines(output)[i] = LineA

\* ------------------------------------------------------------------------
\* The parser and the single probe
\* ------------------------------------------------------------------------

\* the positions of the colons of a line
Colons(s) == {k \in 1..Len(s) : s[k] = ":"}

RECURSIVE TokensFrom(_, _)
\* the colon-separated tokens of s from position i on
TokensFrom(s, i) ==
    LET later == {k \in Colons(s) : k >= i}
    IN  IF later = {} THEN <<SubSeq(s, i, Len(s))>>
        ELSE LET k == CHOOSE c \in later : \A d \in later : c <= d
             IN  <<SubSeq(s, i, k - 1)>> \o TokensFrom(s, k + 1)

\* the two documented forms: host:port and host:port:username:password,
\* the port a number, no token empty, no blank in host or port
TwoForms(line) ==
    LET ts == TokensFrom(Strip(line), 1)
    IN  /\ Len(ts) \in {2, 4}
        /\ \A k \in 1..Len(ts) : ts[k] # <<>>
        /\ Range(ts[1]) \cap WhiteSpace = {}
        /\ Range(ts[2]) \subseteq Digits

\* the call of future i has got past the parser
PastParse(i) ==
    \/ futures[i].st = "PROBING"
    \/ /\ futures[i].st = "FINISHED"
       /\ ~(futures[i].raised = "" /\ futures[i].status = "invalid_format")

\* the call of future i was stopped by the parser
Rejected(i) ==
    /\ futures[i].st = "FINISHED"
    /\ futures[i].raised = ""
    /\ futures[i].status = "invalid_format"

\* C11: the parser accepts exactly the lines of the two forms host:port and
\* host:port:username:password with a numeric port and a colon-free host;
\* every line of another token count or with a non-numeric port is
\* rejected as invalid_format.
C11_ExactlyTwoForms ==
    \A i \in 1..Len(futures) :
        /\ PastParse(i) => TwoForms(futures[i].line)
        /\ Rejected(i) => ~TwoForms(futures[i].line)

\* the futures whose line the parser rejects
Unparsable == {i \in 1..Len(futures) : parse_proxy_line(futures[i].line) = None}

\* C12: a line the parser rejects never reaches the network: its call
\* makes no session, meets no endpoint and issues no request, it returns
\* invalid_format, and the line is counted once under invalid_format and
\* never accepted.
C12_RejectedNeverProbed ==
    /\ \A i \in Unparsable :
          /\ futures[i].st # "PROBING"
          /\ \A c \in sessions : c.owner # i
          /\ futures[i].line \notin DOMAIN endpoint[url]
          /\ futures[i].st = "FINISHED" => Rejected(i) /\ futures[i].valid = None
          /\ \A k \in 1..Len(results) : results[k] # futures[i].line
    /\ Unparsable \cap yielded # {} =>
          /\ "invalid_format" \in DOMAIN errors
          /\ errors["invalid_format"] = Cardinality(Unparsable \cap yielded)

\* a rejected line has gone through a whole call
C12_Witness ==
    /\ pc = "returned"
    /\ Unparsable = {1}
    /\ Rejected(1)
    /\ errors = ("invalid_format" :> 1)
    /\ results = <<>>
    /\ sessions = {}
    /\ endpoint = NoAnswers

\* the futures whose request came back with a final response
Answered ==
    {i \in 1..Len(futures) :
        /\ futures[i].st = "FINISHED"
        /\ futures[i].line \in DOMAIN endpoint[url]
        /\ endpoint[url][futures[i].line].session = ""
        /\ endpoint[url][futures[i].line].exc = ""}

\* the final status of the response to the probe of a line
StatusOf(line) == endpoint[url][line].code

\* C13: a probe is accepted exactly when the final status is 2xx: the call
\* returns (proxy_line, "ok") for 200-299 and (None, http_<code>) for every
\* other status, so every accepted line had a 2xx response.
C13_AcceptedIffSuccessStatus ==
    /\ \A i \in Answered :
          LET code == StatusOf(futures[i].line)
          IN  IF 200 <= code /\ code <= 299
              THEN /\ futures[i].valid = futures[i].line
                   /\ futures[i].status = "ok"
              ELSE /\ futures[i].valid = None
                   /\ futures[i].status = "http_" \o ToString(code)
    /\ \A k \in 1..Len(results) :
          /\ results[k] \in DOMAIN endpoint[url]
          /\ endpoint[url][results[k]].exc = ""
          /\ 200 <= StatusOf(results[k]) /\ StatusOf(results[k]) <= 299

\* ------------------------------------------------------------------------
\* The two rounds
\* ------------------------------------------------------------------------

\* the outcome of the probe of a line against a test URL, from the line and
\* the environment alone
OutcomeAt(u, line, only) ==
    IF parse_proxy_line(line) = None THEN Returned(None, "invalid_format")
    ELSE check_proxy(line, endpoint[u][line], only)

\* the lines of main's list the first round accepts
Round1Accepted ==
    {l \in Range(proxies) : OutcomeAt("http", l, args.https_only).valid # None}

\* the failure tally of the first round over main's list
Round1Tally ==
    LET key(l) == ErrorKey(OutcomeAt("http", l, args.https_only))
        keys == {key(l) : l \in Range(proxies)} \ {""}
    IN  [k \in keys |-> Cardinality({l \in Range(proxies) : key(l) = k})]

\* C14: with also-test-https, the second round runs on the first round's
\* accepted lines only and starts from an empty report; after an
\* uninterrupted run of both rounds the final accepted list is the second
\* round's, a subset of the first round's, and the final failure tally is
\* the first round's alone.
C14_SecondRound ==
    /\ round = 2 /\ pc \in {"submit", "collect"} /\ yielded = {} =>
          results = <<>> /\ errors = EmptyCounter
    /\ round = 2 /\ pc = "exit" /\ exc = "" =>
          /\ args.also_test_https
          /\ Range(vproxies) = Round1Accepted
          /\ valid = results
          /\ Range(valid) =
                 {l \in Range(vproxies) : OutcomeAt("https", l, TRUE).valid # None}
          /\ Range(valid) \subseteq Round1Accepted
          /\ main_errors = Round1Tally

\* both rounds have run, the first with a failure, the second with another
\* failure that narrowed the list
C14_Witness ==
    /\ round = 2
    /\ pc = "exit"
    /\ exc = ""
    /\ valid # <<>>
    /\ Range(valid) # Range(vproxies)
    /\ errors # EmptyCounter
    /\ main_errors # EmptyCounter
    /\ main_errors # errors

\* ------------------------------------------------------------------------
\* The pool
\* ------------------------------------------------------------------------

Min(a, b) == IF a <= b THEN a ELSE b

\* C15: the pool is refilled continuously: while no interrupt has occurred,
\* whenever fewer than max_workers probes are in flight and a submitted
\* line has not started, a worker can start it at once, whatever the
\* other probes in flight do; so once every line is submitted and no
\* worker can take another, min(max_workers, lines not completed) probes
\* are in flight.
C15_PoolRefilled ==
    exc = "" /\ pc \in {"submit", "collect"} =>
        /\ work_queue # <<>> /\ Cardinality(InFlight) < args.max_workers =>
              ENABLED WorkerGet
        /\ pc = "collect" /\ ~ENABLED WorkerGet =>
              Cardinality(InFlight) =
                 Min(args.max_workers, Len(futures) - Cardinality(Finished))

\* the third line has started while one of the first two is still in
\* flight and the other has finished
C15_Witness ==
    /\ exc = ""
    /\ args.max_workers = 2
    /\ Len(futures) = 3
    /\ 3 \in InFlight
    /\ Cardinality(InFlight) = 2
    /\ Cardinality(Finished) = 1

\* ------------------------------------------------------------------------
\* Termination
\* ------------------------------------------------------------------------

\* the lines of the call that no worker has started
NotStarted ==
    {i \in 1..Len(vproxies) : i > Len(futures) \/ futures[i].st = "PENDING"}

\* the coordinator's states
Pending == pc = "validate"
Dispatching == pc \in {"submit", "collect"} /\ NotStarted # {}
Draining == pc = "collect" /\ NotStarted = {}
Done ==
    /\ pc = "returned"
    /\ work_queue = <<>>
    /\ Finished = 1..Len(vproxies)
    /\ yielded = 1..Len(vproxies)

PhaseNo ==
    IF Pending THEN 0
    ELSE IF Dispatching THEN 1
    ELSE IF Draining THEN 2
    ELSE 3

\* C16: every uninterrupted call with at least one worker, whose probes
\* end and whose threads are scheduled, goes through Pending, Dispatching
\* and Draining in this order and reaches Done, where the call returns
\* with every submitted line completed; it never stops with lines pending
\* and no probe in flight.
C16_Termination ==
    /\ [][PhaseNo' >= PhaseNo]_vars
    /\ [](pc \in {"submit", "collect"} /\ NotStarted # {} /\ InFlight = {}
            => ENABLED Submit \/ ENABLED WorkerGet)
    /\ args.max_workers >= 1 => <>Done
    /\ args.max_workers >= 1 /\ vproxies # <<>> => <>Dispatching /\ <>Draining

\* a call with more lines than workers has returned
C16_Witness ==
    /\ Done
    /\ args.max_workers = 1
    /\ Len(vproxies) = 2

\* ------------------------------------------------------------------------
\* Failure classification
\* ------------------------------------------------------------------------

\* the four failures of a request the classification names
FourFailures == {"ConnectTimeout", "ReadTimeout", "ProxyError", "ConnectionError"}

\* the futures whose request raised an exception of class c
Failed(c) ==
    {i \in 1..Len(futures) :
        /\ futures[i].st = "FINISHED"
        /\ futures[i].line \in DOMAIN endpoint[url]
        /\ endpoint[url][futures[i].line].session = ""
        /\ endpoint[url][futures[i].line].exc = c}

\* C17: a connect timeout, a read timeout, a proxy rejection and a generic
\* connection failure are classified as four pairwise distinct failure
\* kinds, the more specific class winning over ConnectionError.
C17_FourDistinctKinds ==
    \A c \in FourFailures : \A i \in Failed(c) :
        /\ futures[i].valid = None
        /\ futures[i].raised = ""
        /\ \A d \in FourFailures \ {c} :
              futures[i].status # ProbeResult(futures[i].line, Raise(d)).status

\* ------------------------------------------------------------------------
\* Sessions
\* ------------------------------------------------------------------------

\* the sessions that are not closed
Open == {c \in sessions : ~c.closed}

\* the futures whose call got a session from make_session
GotSession ==
    {i \in 1..Len(futures) :
        \/ futures[i].st = "PROBING"
        \/ /\ futures[i].st = "FINISHED"
           /\ ~Rejected(i)
           /\ endpoint[url][futures[i].line].session = ""}

OutputLines == Range(SplitLines(output))

\* the HTTPS probe of a line was made and accepted
HttpsAccepted(l) ==
    /\ l \in DOMAIN endpoint["https"]
    /\ OutcomeAt("https", l, TRUE).valid # None

\* C19: with also-test-https, every line main writes to the output, on the
\* interrupt path too, is a line whose HTTPS probe in the second round was
\* accepted; no line accepted in the first round alone is written.
C19_OnlyHttpsAccepted ==
    args.also_test_https /\ pc = "exit" /\ wcalls > 0 /\ ~wfailed =>
        \A l \in OutputLines : HttpsAccepted(l)

\* the probes of the call that are queued or in flight
Unfinished == {i \in 1..Len(futures) : futures[i].st # "FINISHED"}

====
